---- MODULE Spec2Model ----
(***************************************************************************)
(* RediGo: the RESP stream parser (resp/parser), the request handler       *)
(* (resp/handler) and the TCP server (tcp/server.go) as one state machine. *)
(*                                                                         *)
(* Bytes are one-character strings.  The byte written "U" abbreviates the  *)
(* 32 bytes "use of closed network connection", the phrase the handler     *)
(* searches error texts for; no other byte of the alphabet occurs in it.   *)
(***************************************************************************)
EXTENDS Integers, Sequences, FiniteSets, TLC

\* ------------------------------------------------------------------ bounds

\* Longest client input of ParserSpec, counted in fragments of Fragments.
MaxFragments == 3

\* ------------------------------------------------------------------- bytes

CR == "\r"
LF == "\n"
ClosedPhrase == <<"U">>

Digits == {"0", "1", "2", "3", "4", "5", "6", "7", "8", "9"}

DigitVal(b) ==
  CASE b = "0" -> 0 [] b = "1" -> 1 [] b = "2" -> 2 [] b = "3" -> 3
    [] b = "4" -> 4 [] b = "5" -> 5 [] b = "6" -> 6 [] b = "7" -> 7
    [] b = "8" -> 8 [] b = "9" -> 9

IsDigits(s) == Len(s) > 0 /\ \A i \in 1..Len(s) : s[i] \in Digits

RECURSIVE Atoi(_)
Atoi(s) ==
  IF s = <<>> THEN 0
  ELSE 10 * Atoi(SubSeq(s, 1, Len(s) - 1)) + DigitVal(s[Len(s)])

RECURSIVE Itoa(_)
Itoa(n) ==
  LET d == <<"0", "1", "2", "3", "4", "5", "6", "7", "8", "9">>
  IN IF n < 10 THEN <<d[n + 1]>> ELSE Itoa(n \div 10) \o <<d[(n % 10) + 1]>>

\* strconv.ParseUint(s, 10, 32): digits only, no sign, below 2^32.
ParseUint(s) ==
  IF IsDigits(s) /\ Len(s) <= 9
  THEN [ok |-> TRUE, val |-> Atoi(s)]
  ELSE [ok |-> FALSE, val |-> 0]

\* strconv.ParseInt(s, 10, 64): an optional sign, then digits.
ParseInt(s) ==
  LET signed == Len(s) > 0 /\ s[1] \in {"+", "-"}
      body   == IF signed THEN Tail(s) ELSE s
  IN IF IsDigits(body) /\ Len(body) <= 9
     THEN [ok |-> TRUE,
           val |-> IF signed /\ s[1] = "-" THEN 0 - Atoi(body) ELSE Atoi(body)]
     ELSE [ok |-> FALSE, val |-> 0]

\* strings.Contains(text, phrase)
Contains(text, phrase) ==
  \E i \in 1..(Len(text) - Len(phrase) + 1) :
    SubSeq(text, i, i + Len(phrase) - 1) = phrase

\* The index of the first LF of buf, 0 when there is none.
FirstLF(buf) ==
  IF \E i \in 1..Len(buf) : buf[i] = LF
  THEN CHOOSE i \in 1..Len(buf) :
         buf[i] = LF /\ \A j \in 1..(i - 1) : buf[j] # LF
  ELSE 0

\* ----------------------------------------------------------------- replies

NoReply == [kind |-> "nil", args |-> <<>>, val |-> 0]
MakeStatusReply(text) == [kind |-> "status", args |-> <<text>>, val |-> 0]
MakeErrReply(text) == [kind |-> "err", args |-> <<text>>, val |-> 0]
MakeIntReply(v) == [kind |-> "int", args |-> <<>>, val |-> v]
MakeBulkReply(arg) == [kind |-> "bulk", args |-> <<arg>>, val |-> 0]
MakeMultiBulkReply(args) == [kind |-> "multibulk", args |-> args, val |-> 0]
NullBulkReply == [kind |-> "nullbulk", args |-> <<>>, val |-> 0]
EmptyMultiBulkReply == [kind |-> "emptymultibulk", args |-> <<>>, val |-> 0]

\* ------------------------------------------------------------------ errors

NoErr == [kind |-> "nil", text |-> <<>>]
\* errors.New("protocol error: " + string(msg)); text is msg.
ProtocolError(msg) == [kind |-> "protocol", text |-> msg]
\* io.EOF, io.ErrUnexpectedEOF, "use of closed network connection" (kind
\* "closed") and any other read error of the connection (kind "reset").
IOError(kind) ==
  [kind |-> kind, text |-> IF kind = "closed" THEN ClosedPhrase ELSE <<>>]

Payload(data, err) == [data |-> data, err |-> err]

\* --------------------------------------------------------------- readState

ZeroState ==
  [readingMultiLine |-> FALSE, expectedArgsCount |-> 0, msgType |-> "NUL",
   args |-> <<>>, bulkLen |-> 0]

\* finished comparing with > where the code has ==.
finishedPastCount(s) == s.expectedArgsCount > 0 /\ Len(s.args) > s.expectedArgsCount

finished(s) == s.expectedArgsCount > 0 /\ Len(s.args) = s.expectedArgsCount

\* ------------------------------------------------------------------ parser

\* readLine: one line, or one bulk body of bulkLen+2 bytes, off the front of
\* buf.  endk is what a read meets once buf is used up: "open" (the read
\* blocks), "eof", "reset" or "closed".  kind is "ok", "proto" (a protocol
\* error), "io" (ioErr = true), "panic" (index out of range) or "block".
readLine(buf, endk, st) ==
  LET res(k, m, e, r, s) == [kind |-> k, msg |-> m, err |-> e, rest |-> r, state |-> s]
  IN
  IF st.bulkLen = 0
  THEN LET i == FirstLF(buf) IN
       IF i = 0
       THEN IF endk = "open" THEN res("block", <<>>, NoErr, buf, st)
            ELSE res("io", <<>>, IOError(IF endk = "eof" THEN "EOF" ELSE endk), <<>>, st)
       ELSE LET msg  == SubSeq(buf, 1, i)
                rest == SubSeq(buf, i + 1, Len(buf))
            IN IF Len(msg) < 2 THEN res("panic", msg, NoErr, rest, st)
               ELSE IF msg[Len(msg) - 1] # CR
                    THEN res("proto", msg, ProtocolError(msg), rest, st)
                    ELSE res("ok", msg, NoErr, rest, st)
  ELSE LET n == st.bulkLen + 2 IN
       IF Len(buf) < n
       THEN IF endk = "open" THEN res("block", <<>>, NoErr, buf, st)
            ELSE res("io", <<>>,
                     IOError(IF endk = "eof"
                             THEN (IF Len(buf) = 0 THEN "EOF" ELSE "ErrUnexpectedEOF")
                             ELSE endk),
                     <<>>, st)
       ELSE LET msg  == SubSeq(buf, 1, n)
                rest == SubSeq(buf, n + 1, Len(buf))
            IN IF msg[n - 1] # CR \/ msg[n] # LF
               THEN res("proto", msg, ProtocolError(msg), rest, st)
               ELSE res("ok", msg, NoErr, rest, [st EXCEPT !.bulkLen = 0])

\* parseMultiBulkHeader reading the count with strconv.ParseInt and taking
\* every count but 0 for the number of arguments.
parseMultiBulkHeaderSigned(msg, st) ==
  LET n == ParseInt(SubSeq(msg, 2, Len(msg) - 2)) IN
  IF ~n.ok THEN [ok |-> FALSE, state |-> st]
  ELSE IF n.val = 0
       THEN [ok |-> TRUE, state |-> [st EXCEPT !.expectedArgsCount = 0]]
       ELSE [ok |-> TRUE,
             state |-> [st EXCEPT !.msgType = msg[1], !.readingMultiLine = TRUE,
                                  !.expectedArgsCount = n.val, !.args = <<>>]]

parseMultiBulkHeader(msg, st) ==
  LET n == ParseUint(SubSeq(msg, 2, Len(msg) - 2)) IN
  IF ~n.ok THEN [ok |-> FALSE, state |-> st]
  ELSE IF n.val = 0
       THEN [ok |-> TRUE, state |-> [st EXCEPT !.expectedArgsCount = 0]]
       ELSE [ok |-> TRUE,
             state |-> [st EXCEPT !.msgType = msg[1], !.readingMultiLine = TRUE,
                                  !.expectedArgsCount = n.val, !.args = <<>>]]

parseBulkHeader(msg, st) ==
  LET n  == ParseInt(SubSeq(msg, 2, Len(msg) - 2))
      s1 == [st EXCEPT !.bulkLen = n.val]
  IN IF ~n.ok THEN [ok |-> FALSE, state |-> s1]
     ELSE IF n.val = -1 THEN [ok |-> TRUE, state |-> s1]
     ELSE IF n.val > 0
          THEN [ok |-> TRUE,
                state |-> [s1 EXCEPT !.msgType = msg[1], !.readingMultiLine = TRUE,
                                     !.expectedArgsCount = 1, !.args = <<>>]]
          ELSE [ok |-> FALSE, state |-> s1]

parseSingleLineReply(msg) ==
  LET str  == SubSeq(msg, 1, Len(msg) - 2)
      text == Tail(str)
  IN CASE msg[1] = "+" -> Payload(MakeStatusReply(text), NoErr)
       [] msg[1] = "-" -> Payload(MakeErrReply(text), NoErr)
       [] msg[1] = ":" ->
            IF ParseInt(text).ok
            THEN Payload(MakeIntReply(ParseInt(text).val), NoErr)
            ELSE Payload(NoReply, ProtocolError(msg))
       [] OTHER -> Payload(NoReply, NoErr)

\* kind is "ok", "err" or "panic" (line[0] of an empty line).
readBody(msg, st) ==
  LET line == SubSeq(msg, 1, Len(msg) - 2) IN
  IF Len(line) = 0 THEN [kind |-> "panic", state |-> st]
  ELSE IF line[1] = "$"
       THEN LET n == ParseInt(Tail(line)) IN
            IF ~n.ok THEN [kind |-> "err", state |-> [st EXCEPT !.bulkLen = n.val]]
            ELSE IF n.val <= 0
                 THEN [kind |-> "ok",
                       state |-> [st EXCEPT !.args = Append(@, <<>>), !.bulkLen = 0]]
                 ELSE [kind |-> "ok", state |-> [st EXCEPT !.bulkLen = n.val]]
       ELSE [kind |-> "ok", state |-> [st EXCEPT !.args = Append(@, line)]]

\* onIOError without the close(ch) and the return: the loop goes on.
onIOErrorGoesOn(err) == [outcome |-> "emit", payload |-> Payload(NoReply, err)]

\* parse0 on an I/O error of readLine: the error is sent, the channel closed
\* and the task returns.
onIOError(err) == [outcome |-> "final", payload |-> Payload(NoReply, err)]

\* parse0 on a protocol error: the error is sent, the state reset and the
\* loop goes on.
onProtocolError(err) ==
  [outcome |-> "emit", state |-> ZeroState, payload |-> Payload(NoReply, err)]

\* One iteration of parse0's loop.  outcome: "emit" (a unit is sent and the
\* loop goes on), "final" (a unit is sent, the channel closed, the task
\* returns), "cont" (nothing sent), "panic" (the task ends in the deferred
\* recover, the channel left open) or "block" (the read does not return).
parse0(st, buf, endk) ==
  LET rl == readLine(buf, endk, st)
      it(o, s, p) == [outcome |-> o, state |-> s, buf |-> rl.rest, payload |-> p]
      none == Payload(NoReply, NoErr)
      perr == onProtocolError(ProtocolError(rl.msg)).payload
  IN
  CASE rl.kind = "block" -> it("block", st, none)
    [] rl.kind = "panic" -> it("panic", st, none)
    [] rl.kind = "io"    ->
         it(onIOError(rl.err).outcome, st, onIOError(rl.err).payload)
    [] rl.kind = "proto" ->
         LET e == onProtocolError(rl.err) IN it(e.outcome, e.state, e.payload)
    [] rl.kind = "ok" ->
         IF ~rl.state.readingMultiLine
         THEN CASE rl.msg[1] = "*" ->
                     LET h == parseMultiBulkHeader(rl.msg, rl.state) IN
                     IF ~h.ok THEN it("emit", ZeroState, perr)
                     ELSE IF h.state.expectedArgsCount = 0
                          THEN it("emit", ZeroState, Payload(EmptyMultiBulkReply, NoErr))
                          ELSE it("cont", h.state, none)
                [] rl.msg[1] = "$" ->
                     LET h == parseBulkHeader(rl.msg, rl.state) IN
                     IF ~h.ok THEN it("emit", ZeroState, perr)
                     ELSE IF h.state.bulkLen = -1
                          THEN it("emit", ZeroState, Payload(NullBulkReply, NoErr))
                          ELSE it("cont", h.state, none)
                [] OTHER -> it("emit", ZeroState, parseSingleLineReply(rl.msg))
         ELSE LET b == readBody(rl.msg, rl.state) IN
              CASE b.kind = "panic" -> it("panic", rl.state, none)
                [] b.kind = "err"   -> it("emit", ZeroState, perr)
                [] b.kind = "ok"    ->
                     IF finished(b.state)
                     THEN it("emit", ZeroState,
                             Payload(CASE b.state.msgType = "*" -> MakeMultiBulkReply(b.state.args)
                                       [] b.state.msgType = "$" -> MakeBulkReply(b.state.args[1])
                                       [] OTHER -> NoReply,
                                     NoErr))
                     ELSE it("cont", b.state, none)

\* ------------------------------------------------------------ client input

\* The pieces client input is made of: message headers, elements, bodies and
\* broken lines.
Fragments ==
  { <<"*", "1", CR, LF>>,                     \* *1
    <<"*", "2", CR, LF>>,                     \* *2
    <<"*", "0", CR, LF>>,                     \* *0
    <<"*", "a", CR, LF>>,                     \* a count that is no number
    <<"*", "-", "1", CR, LF>>,                \* a negative count
    <<"$", "1", CR, LF, "a", CR, LF>>,        \* the bulk "a"
    <<"$", "1", CR, LF, "$", CR, LF>>,        \* the bulk "$"
    <<"$", "1", CR, LF, LF, CR, LF>>,         \* the bulk "\n"
    <<"$", "0", CR, LF, CR, LF>>,             \* the empty bulk
    <<"$", "-", "1", CR, LF>>,                \* the null bulk
    <<"$", "-", "2", CR, LF>>,                \* an invalid negative length
    <<"$", "a", CR, LF>>,                     \* a length that is no number
    <<"$", "1", CR, LF, "a", "a", CR, LF>>,   \* a body with a bad terminator
    <<"$", "1", CR, LF>>,                     \* a bulk header, its body missing
    <<"+", "a", CR, LF>>,                     \* a status line
    <<":", "1", CR, LF>>,                     \* an integer line
    <<":", "a", CR, LF>>,                     \* an integer line, no number
    <<"a", CR, LF>>,                          \* a line with no type tag
    <<"a", LF>>,                              \* a line ending in LF alone
    <<LF>>,                                   \* a bare LF
    <<"*", "U", CR, LF>> }                    \* a count spelling ClosedPhrase

RECURSIVE StreamsUpTo(_)
StreamsUpTo(n) ==
  IF n = 0 THEN {<<>>}
  ELSE LET S == StreamsUpTo(n - 1) IN S \cup {s \o f : s \in S, f \in Fragments}

EndKinds == {"open", "eof", "reset"}

\* What the clients of the whole server send.
CmdA == <<"*", "1", CR, LF, "$", "1", CR, LF, "a", CR, LF>>
CmdB == <<"*", "1", CR, LF, "$", "1", CR, LF, "b", CR, LF>>
\* A status line, an empty multi-bulk, a null bulk and a bulk.
NonCommands ==
  <<"+", "a", CR, LF>> \o <<"*", "0", CR, LF>> \o <<"$", "-", "1", CR, LF>>
    \o <<"$", "1", CR, LF, "a", CR, LF>>
Scripts ==
  { CmdA \o CmdB,                          \* two commands
    <<"*", "a", CR, LF>> \o CmdA,          \* a malformed header, a command
    NonCommands \o CmdA,                   \* no commands, then a command
    <<"a", CR, LF>>,                       \* a line with no type tag
    <<"*", "U", CR, LF>> \o CmdA,          \* a count spelling ClosedPhrase
    <<LF>> }                               \* a bare LF

Conns == {"c1", "c2"}

\* The first client sends any script and ends in any way; the second sends
\* one command and stays connected.
ScriptsOf(c) == IF c = "c1" THEN Scripts ELSE {CmdA}
EndKindsOf(c) == IF c = "c1" THEN EndKinds ELSE {"open"}

Closers == {"sup", "defer"}

\* ------------------------------------------------------------------- state

VARIABLES
  sent,       \* per connection: all the bytes the client sends
  inbuf,      \* per connection: those of them not yet read by the parser
  endKind,    \* per connection: what follows them: "open", "eof" or "reset"
  sockClosed, \* per connection: the server side closed the socket
  buffered,   \* per connection: the parser's bufio.Reader has read from the
              \*   socket, so it may hold bytes the parser has not used yet
  wbroken,    \* per connection: the peer is gone, writes fail
  ppc,        \* per connection: the parser task: "none", "read", "send",
              \*   "sendFinal", "closed" (channel closed, returned), "panicked"
  pstate,     \* per connection: parse0's readState
  pend,       \* per connection: the Payload parse0 is sending on ch
  emitted,    \* per connection: the Payloads received from ch, in order
  hpc,        \* per connection: the Handle task: "idle", "start", "store",
              \*   "recv", "done"
  refused,    \* per connection: Handle found the closing flag set
  handled,    \* per connection: what Handle did with each received Payload
  out,        \* per connection: the replies written to the socket, in order
  activeConn, \* RespHandler.activeConn
  closing,    \* RespHandler.closing
  dbClosed,   \* db.Close() was called
  cpc,        \* per caller of RespHandler.Close: "idle", "set", "range", "done"
  cseen,      \* per caller: the connections its Range has visited
  cmust,      \* per caller: the connections in the map when its Range began
  listener,   \* "open" or "closed"
  lspc,       \* ListenAndServe: "accept", "wait", "defer", "returned"
  waitDone,   \* ListenAndServe's WaitGroup counter
  serverDef   \* which ListenAndServe of tcp/server.go runs: 1 (line 48) or
              \*   2 (line 110)

pvars == <<sent, inbuf, endKind, sockClosed, buffered, ppc, pstate, pend, emitted>>
hvars == <<wbroken, hpc, refused, handled, out, activeConn, closing, dbClosed>>
svars == <<cpc, cseen, cmust, listener, lspc, waitDone, serverDef>>
vars == <<pvars, hvars, svars>>

\* parse0's iterations up to the next one that sends, ends or blocks.
RECURSIVE parseToSend(_, _, _)
parseToSend(st, buf, endk) ==
  LET r == parse0(st, buf, endk) IN
  IF r.outcome = "cont" THEN parseToSend(r.state, r.buf, endk) ELSE r

\* The outcomes of parse0 on connection c, one iteration (whole = FALSE) or
\* the iterations up to the next send.  On an open socket the read returns
\* the client's bytes, and behind them what endKind says.  On a socket the
\* server closed it returns bytes bufio had buffered before, or the "use of
\* closed network connection" error.
Outcomes(c, whole) ==
  LET run(buf, endk) == IF whole THEN parseToSend(pstate[c], buf, endk)
                        ELSE parse0(pstate[c], buf, endk)
  IN IF ~sockClosed[c] THEN {run(inbuf[c], endKind[c])}
     ELSE {run(<<>>, "closed")}
            \cup (IF buffered[c] THEN {run(inbuf[c], "closed")} ELSE {})

\* ParserMoves on a channel with a buffer: parse0 goes on while the unit it
\* sent has not been received.
ParserMovesBuffered(c, whole) ==
  /\ ppc[c] \in {"read", "send"}
  /\ \E r \in Outcomes(c, whole) :
       /\ r.outcome # "block"
       /\ inbuf' = [inbuf EXCEPT ![c] = r.buf]
       /\ buffered' = [buffered EXCEPT ![c] = @ \/ ~sockClosed[c]]
       /\ pstate' = [pstate EXCEPT ![c] = r.state]
       /\ pend' = [pend EXCEPT ![c] = r.payload]
       /\ ppc' = [ppc EXCEPT ![c] =
                    CASE r.outcome = "emit"  -> "send"
                      [] r.outcome = "final" -> "sendFinal"
                      [] r.outcome = "cont"  -> "read"
                      [] r.outcome = "panic" -> "panicked"]
  /\ UNCHANGED <<sent, endKind, sockClosed, emitted, hvars, svars>>

ParserMoves(c, whole) ==
  /\ ppc[c] = "read"
  /\ \E r \in Outcomes(c, whole) :
       /\ r.outcome # "block"
       /\ inbuf' = [inbuf EXCEPT ![c] = r.buf]
       /\ buffered' = [buffered EXCEPT ![c] = @ \/ ~sockClosed[c]]
       /\ pstate' = [pstate EXCEPT ![c] = r.state]
       /\ pend' = [pend EXCEPT ![c] = r.payload]
       /\ ppc' = [ppc EXCEPT ![c] =
                    CASE r.outcome = "emit"  -> "send"
                      [] r.outcome = "final" -> "sendFinal"
                      [] r.outcome = "cont"  -> "read"
                      [] r.outcome = "panic" -> "panicked"]
  /\ UNCHANGED <<sent, endKind, sockClosed, emitted, hvars, svars>>

\* One iteration of parse0's loop.
ParserStep(c) == ParserMoves(c, FALSE)

\* parse0 from one channel send to the next, as one step: between two sends
\* it touches only its own state and the socket.
ParserRun(c) == ParserMoves(c, TRUE)

\* The receive of one Payload from ch: parse0's send completes; after its
\* final unit parse0 closes ch and returns.
Receive(c) ==
  /\ ppc[c] \in {"send", "sendFinal"}
  /\ emitted' = [emitted EXCEPT ![c] = Append(@, pend[c])]
  /\ ppc' = [ppc EXCEPT ![c] = IF ppc[c] = "sendFinal" THEN "closed" ELSE "read"]
  /\ pend' = [pend EXCEPT ![c] = Payload(NoReply, NoErr)]

\* ---------------------------------------------------------- the parser alone

Idle ==
  /\ wbroken = [c \in Conns |-> FALSE]
  /\ hpc = [c \in Conns |-> "idle"]
  /\ refused = [c \in Conns |-> FALSE]
  /\ handled = [c \in Conns |-> <<>>]
  /\ out = [c \in Conns |-> <<>>]
  /\ activeConn = {}
  /\ closing = FALSE
  /\ dbClosed = FALSE
  /\ cpc = [k \in Closers |-> "idle"]
  /\ cseen = [k \in Closers |-> {}]
  /\ cmust = [k \in Closers |-> {}]
  /\ listener = "open"
  /\ lspc = "accept"
  /\ waitDone = 0

\* ParseStream(reader) over one client's input, its channel ranged over by a
\* consumer that only takes the units.
ParserInit ==
  /\ \E s \in StreamsUpTo(MaxFragments), e \in EndKinds :
       /\ sent = [c \in Conns |-> IF c = "c1" THEN s ELSE <<>>]
       /\ endKind = [c \in Conns |-> IF c = "c1" THEN e ELSE "open"]
  /\ inbuf = sent
  /\ sockClosed = [c \in Conns |-> FALSE]
  /\ buffered = [c \in Conns |-> FALSE]
  /\ ppc = [c \in Conns |-> IF c = "c1" THEN "read" ELSE "none"]
  /\ pstate = [c \in Conns |-> ZeroState]
  /\ pend = [c \in Conns |-> Payload(NoReply, NoErr)]
  /\ emitted = [c \in Conns |-> <<>>]
  /\ Idle
  /\ serverDef = 1

Consume(c) ==
  /\ Receive(c)
  /\ UNCHANGED <<sent, inbuf, endKind, sockClosed, buffered, pstate, hvars, svars>>

ParserNext == \E c \in Conns : ParserStep(c) \/ Consume(c)

ParserSpec == ParserInit /\ [][ParserNext]_vars

\* ----------------------------------------------------------------- handler

UnknownErrReply ==
  MakeErrReply(<<"E", "R", "R", " ", "u", "n", "k", "n", "o", "w", "n">>)

\* db.Exec(client, args) of the storage engine: a reply, or none.
Exec(args) == {MakeMultiBulkReply(args), NoReply}

\* client.Write(bytes): whether a write succeeds.  It fails on a socket the
\* server closed and once the peer is gone; the peer may be found gone at
\* any write.
WriteOutcomes(c) == IF sockClosed[c] \/ wbroken[c] THEN {FALSE} ELSE {TRUE, FALSE}

\* payload.Err == io.EOF || payload.Err == io.ErrUnexpectedEOF ||
\* strings.Contains(payload.Err.Error(), "use of closed network connection")
IsClosedErr(err) ==
  \/ err.kind \in {"EOF", "ErrUnexpectedEOF"}
  \/ Contains(err.text, ClosedPhrase)

\* HandlePayload with no reply written when db.Exec returns none.
HandlePayloadSilentOnNone(p, wok, result) ==
  LET eff(e, w, n) == [exec |-> e, write |-> w, next |-> n] IN
  IF p.err # NoErr
  THEN IF IsClosedErr(p.err) THEN eff(<<>>, <<>>, "close")
       ELSE eff(<<>>, <<MakeErrReply(p.err.text)>>,
                IF wok THEN "continue" ELSE "close")
  ELSE IF p.data = NoReply THEN eff(<<>>, <<>>, "continue")
  ELSE IF p.data.kind # "multibulk" THEN eff(<<>>, <<>>, "continue")
  ELSE eff(<<p.data.args>>,
           IF result # NoReply THEN <<result>> ELSE <<>>,
           "continue")

\* HandlePayload without the type assertion: any data is taken for a command.
HandlePayloadAnyData(p, wok, result) ==
  LET eff(e, w, n) == [exec |-> e, write |-> w, next |-> n] IN
  IF p.err # NoErr
  THEN IF IsClosedErr(p.err) THEN eff(<<>>, <<>>, "close")
       ELSE eff(<<>>, <<MakeErrReply(p.err.text)>>,
                IF wok THEN "continue" ELSE "close")
  ELSE IF p.data = NoReply THEN eff(<<>>, <<>>, "continue")
  ELSE eff(<<p.data.args>>,
           <<IF result # NoReply THEN result ELSE UnknownErrReply>>,
           "continue")

\* The body of Handle's loop for one Payload p, given whether a write
\* succeeds and what db.Exec returns: the argument lists passed to db.Exec,
\* the replies passed to client.Write, and how the loop goes on: "continue",
\* or "close" (closeClient and return).
HandlePayload(p, wok, result) ==
  LET eff(e, w, n) == [exec |-> e, write |-> w, next |-> n] IN
  IF p.err # NoErr
  THEN IF IsClosedErr(p.err) THEN eff(<<>>, <<>>, "close")
       ELSE eff(<<>>, <<MakeErrReply(p.err.text)>>,
                IF wok THEN "continue" ELSE "close")
  ELSE IF p.data = NoReply THEN eff(<<>>, <<>>, "continue")
  ELSE IF p.data.kind # "multibulk" THEN eff(<<>>, <<>>, "continue")
  ELSE eff(<<p.data.args>>,
           <<IF result # NoReply THEN result ELSE UnknownErrReply>>,
           "continue")

\* Handle, up to activeConn.Store: the closing flag is read, and the
\* connection closed when it is set.
HandleStart(c) ==
  /\ hpc[c] = "start"
  /\ hpc' = [hpc EXCEPT ![c] = "store"]
  /\ refused' = [refused EXCEPT ![c] = closing]
  /\ sockClosed' = [sockClosed EXCEPT ![c] = @ \/ closing]
  /\ UNCHANGED <<sent, inbuf, endKind, buffered, ppc, pstate, pend, emitted,
                 wbroken, handled, out, activeConn, closing, dbClosed, svars>>

\* activeConn.Store(client, 1) and parser.ParseStream(conn).
HandleStore(c) ==
  /\ hpc[c] = "store"
  /\ hpc' = [hpc EXCEPT ![c] = "recv"]
  /\ activeConn' = activeConn \cup {c}
  /\ ppc' = [ppc EXCEPT ![c] = "read"]
  /\ UNCHANGED <<sent, inbuf, endKind, sockClosed, buffered, pstate, pend,
                 emitted, wbroken, refused, handled, out, closing, dbClosed,
                 svars>>

\* Handle returns (and, in ListenAndServe's task, waitDone.Done() runs).
Returned(c) ==
  /\ hpc' = [hpc EXCEPT ![c] = "done"]
  /\ waitDone' = IF serverDef = 1 THEN waitDone - 1 ELSE waitDone

\* One round of Handle's loop: a Payload is received and dealt with.
HandleRecv(c) ==
  /\ hpc[c] = "recv"
  /\ Receive(c)
  /\ \E wok \in WriteOutcomes(c),
        result \in (IF pend[c].data.kind = "multibulk"
                    THEN Exec(pend[c].data.args) ELSE {NoReply}) :
       LET e == HandlePayload(pend[c], wok, result) IN
       /\ handled' = [handled EXCEPT ![c] =
                        Append(@, [exec |-> e.exec, write |-> e.write,
                                   next |-> e.next, result |-> result,
                                   wok |-> wok])]
       /\ out' = [out EXCEPT ![c] =
                    IF e.write # <<>> /\ wok
                    THEN Append(@, [reply |-> e.write[1], req |-> e.exec])
                    ELSE @]
       /\ wbroken' = [wbroken EXCEPT ![c] =
                        @ \/ (e.write # <<>> /\ ~wok /\ ~sockClosed[c])]
       /\ IF e.next = "close"
          THEN /\ sockClosed' = [sockClosed EXCEPT ![c] = TRUE]
               /\ activeConn' = activeConn \ {c}
               /\ Returned(c)
          ELSE UNCHANGED <<sockClosed, activeConn, hpc, waitDone>>
  /\ UNCHANGED <<sent, inbuf, endKind, buffered, pstate, refused, closing,
                 dbClosed, cpc, cseen, cmust, listener, lspc, serverDef>>

\* The range over ch ends on the closed channel and Handle returns.
HandleEnd(c) ==
  /\ hpc[c] = "recv"
  /\ ppc[c] = "closed"
  /\ Returned(c)
  /\ UNCHANGED <<pvars, wbroken, refused, handled, out, activeConn, closing,
                 dbClosed, cpc, cseen, cmust, listener, lspc, serverDef>>

\* RespHandler.Close by caller k: closing.Set(true), and the Range begins.
CloseSet(k) ==
  /\ cpc[k] = "set"
  /\ closing' = TRUE
  /\ cpc' = [cpc EXCEPT ![k] = "range"]
  /\ cmust' = [cmust EXCEPT ![k] = activeConn]
  /\ cseen' = [cseen EXCEPT ![k] = {}]
  /\ UNCHANGED <<pvars, wbroken, hpc, refused, handled, out, activeConn,
                 dbClosed, listener, lspc, waitDone, serverDef>>

\* One call of the Range function: client.Close() of a connection in the map.
CloseRange(k, c) ==
  /\ cpc[k] = "range"
  /\ c \in activeConn \ cseen[k]
  /\ cseen' = [cseen EXCEPT ![k] = @ \cup {c}]
  /\ sockClosed' = [sockClosed EXCEPT ![c] = TRUE]
  /\ UNCHANGED <<sent, inbuf, endKind, buffered, ppc, pstate, pend, emitted,
                 hvars, cpc, cmust, listener, lspc, waitDone, serverDef>>

\* The Range is over (sync.Map.Range visits every key that stays in the map
\* throughout, and may miss one stored meanwhile); db.Close().
CloseDB(k) ==
  /\ cpc[k] = "range"
  /\ (cmust[k] \cap activeConn) \subseteq cseen[k]
  /\ cpc' = [cpc EXCEPT ![k] = "done"]
  /\ cseen' = [cseen EXCEPT ![k] = {}]
  /\ cmust' = [cmust EXCEPT ![k] = {}]
  /\ dbClosed' = TRUE
  /\ UNCHANGED <<pvars, wbroken, hpc, refused, handled, out, activeConn,
                 closing, listener, lspc, waitDone, serverDef>>

\* ------------------------------------------------------------------ server

\* listener.Accept() returns a client's connection; the handler task starts.
Accept(c) ==
  /\ lspc = "accept"
  /\ listener = "open"
  /\ hpc[c] = "idle"
  /\ hpc' = [hpc EXCEPT ![c] = "start"]
  /\ waitDone' = IF serverDef = 1 THEN waitDone + 1 ELSE waitDone
  /\ \E s \in ScriptsOf(c), e \in EndKindsOf(c) :
       /\ sent' = [sent EXCEPT ![c] = s]
       /\ inbuf' = [inbuf EXCEPT ![c] = s]
       /\ endKind' = [endKind EXCEPT ![c] = e]
  /\ UNCHANGED <<sockClosed, buffered, ppc, pstate, pend, emitted, wbroken, refused,
                 handled, out, activeConn, closing, dbClosed, cpc, cseen,
                 cmust, listener, lspc, serverDef>>

\* listener.Accept() returns an error (always so on a closed listener): the
\* loop breaks.  Definition 1 goes on to waitDone.Wait(), definition 2
\* returns.
AcceptError ==
  /\ lspc = "accept"
  /\ lspc' = IF serverDef = 1 THEN "wait" ELSE "returned"
  /\ UNCHANGED <<pvars, hvars, cpc, cseen, cmust, listener, waitDone, serverDef>>

\* The task of definition 1 that waits on closeChan: the notification
\* arrives; listener.Close(), then handler.Close().
ShutdownNotify ==
  /\ serverDef = 1
  /\ cpc["sup"] = "idle"
  /\ lspc # "returned"
  /\ listener' = "closed"
  /\ cpc' = [cpc EXCEPT !["sup"] = "set"]
  /\ UNCHANGED <<pvars, hvars, cseen, cmust, lspc, waitDone, serverDef>>

\* waitDone.Wait() returns; the deferred listener.Close() and handler.Close()
\* begin.
WaitReturns ==
  /\ lspc = "wait"
  /\ waitDone = 0
  /\ lspc' = "defer"
  /\ listener' = "closed"
  /\ cpc' = [cpc EXCEPT !["defer"] = "set"]
  /\ UNCHANGED <<pvars, hvars, cseen, cmust, waitDone, serverDef>>

\* The deferred calls are over: ListenAndServe returns.
ServeReturns ==
  /\ lspc = "defer"
  /\ cpc["defer"] = "done"
  /\ lspc' = "returned"
  /\ UNCHANGED <<pvars, hvars, cpc, cseen, cmust, listener, waitDone, serverDef>>

Init ==
  /\ sent = [c \in Conns |-> <<>>]
  /\ inbuf = [c \in Conns |-> <<>>]
  /\ endKind = [c \in Conns |-> "open"]
  /\ sockClosed = [c \in Conns |-> FALSE]
  /\ buffered = [c \in Conns |-> FALSE]
  /\ ppc = [c \in Conns |-> "none"]
  /\ pstate = [c \in Conns |-> ZeroState]
  /\ pend = [c \in Conns |-> Payload(NoReply, NoErr)]
  /\ emitted = [c \in Conns |-> <<>>]
  /\ Idle
  /\ serverDef \in {1, 2}

Next ==
  \/ \E c \in Conns :
       \/ Accept(c)
       \/ HandleStart(c)
       \/ HandleStore(c)
       \/ ParserRun(c)
       \/ HandleRecv(c)
       \/ HandleEnd(c)
  \/ \E k \in Closers :
       \/ CloseSet(k)
       \/ CloseDB(k)
       \/ \E c \in Conns : CloseRange(k, c)
  \/ AcceptError
  \/ ShutdownNotify
  \/ WaitReturns
  \/ ServeReturns

Spec == Init /\ [][Next]_vars

\* ------------------------------------------------------------------ claims

IsTransport(err) == err.kind \in {"EOF", "ErrUnexpectedEOF", "closed", "reset"}
IsCommand(p) == p.err = NoErr /\ p.data.kind = "multibulk"
IsCommandReply(w) == w.req # <<>>

\* The Multi-Bulk units received from connection c's parser, and the command
\* replies on its socket, each in order.
Commands(c) == SelectSeq(emitted[c], IsCommand)
CommandReplies(c) == SelectSeq(out[c], IsCommandReply)

\* C1: on every connection the k-th command reply on the socket is the reply
\* to the k-th Multi-Bulk unit of the connection's parser: the request it
\* answers is that unit's argument list and the reply is the engine's for it
\* (or the unknown-error reply); no reply precedes that of an earlier command.
C1_RepliesInParseOrder ==
  \A c \in Conns :
    LET u == Commands(c)
        r == CommandReplies(c)
    IN /\ Len(r) <= Len(u)
       /\ \A k \in 1..Len(r) :
            /\ r[k].req = <<u[k].data.args>>
            /\ r[k].reply \in {MakeMultiBulkReply(u[k].data.args), UnknownErrReply}

\* Two different commands of one connection have both been answered.
C1_Witness ==
  \E c \in Conns :
    /\ Len(CommandReplies(c)) = 2
    /\ CommandReplies(c)[1].req # CommandReplies(c)[2].req

\* C2: for every unit Handle has consumed: a Multi-Bulk unit was passed to
\* db.Exec exactly once, with its argument list, and exactly one reply was
\* passed to client.Write, the engine's or, when it returned none, the
\* unknown-error reply; for any other unit without an error db.Exec was not
\* called and nothing was written.
C2_DispatchPerUnit ==
  \A c \in Conns :
    \A i \in 1..Len(handled[c]) :
      LET p == emitted[c][i]
          h == handled[c][i]
      IN /\ IsCommand(p) =>
              /\ h.exec = <<p.data.args>>
              /\ h.write = <<IF h.result # NoReply THEN h.result ELSE UnknownErrReply>>
         /\ (p.err = NoErr /\ ~IsCommand(p)) =>
              /\ h.exec = <<>>
              /\ h.write = <<>>

\* A connection had a status line, an empty multi-bulk, a null bulk and a
\* bulk skipped, then a command answered with the unknown-error reply.
C2_Witness ==
  \E c \in Conns :
    /\ Len(handled[c]) = 5
    /\ {emitted[c][i].data.kind : i \in 1..4} =
         {"status", "emptymultibulk", "nullbulk", "bulk"}
    /\ IsCommand(emitted[c][5])
    /\ handled[c][5].result = NoReply
    /\ out[c] = <<[reply |-> UnknownErrReply, req |-> <<emitted[c][5].data.args>>]>>

\* C3: a connection whose Handle found the closing flag set is closed, is
\* never in activeConn, has no parser and has no Payload handled.
C3_RefusedNotServed ==
  \A c \in Conns :
    refused[c] =>
      /\ sockClosed[c]
      /\ c \notin activeConn
      /\ ppc[c] = "none"
      /\ handled[c] = <<>>

\* C4: ListenAndServe returns only when every handler task it started has
\* finished, and once the listener is closed no connection is accepted.
C4_ReturnsAfterHandlers ==
  [][/\ lspc' = "returned" => \A c \in Conns : hpc'[c] \in {"idle", "done"}
     /\ listener = "closed" =>
          \A c \in Conns : hpc[c] = "idle" => hpc'[c] = "idle"]_vars

\* C5: for every unit that carries a transport error Handle deregisters and
\* closes the connection and returns; when Handle has returned the
\* connection is not registered and its socket is closed.
C5_TransportErrorCleansUp ==
  \A c \in Conns :
    /\ \A i \in 1..Len(handled[c]) :
         IsTransport(emitted[c][i].err) => handled[c][i].next = "close"
    /\ hpc[c] = "done" => (c \notin activeConn /\ sockClosed[c])

\* C6: for every unit that carries a protocol error Handle writes exactly one
\* Error reply with the error's text, calls no command, and goes on with the
\* loop; it closes the connection and returns only when that write failed.
C6_FormatErrorReplied ==
  \A c \in Conns :
    \A i \in 1..Len(handled[c]) :
      emitted[c][i].err.kind = "protocol" =>
        /\ handled[c][i].exec = <<>>
        /\ handled[c][i].write = <<MakeErrReply(emitted[c][i].err.text)>>
        /\ handled[c][i].next = (IF handled[c][i].wok THEN "continue" ELSE "close")

\* The next line of connection c's input is a format failure: it does not
\* end in CRLF, or it is a header whose count or length is no number, or a
\* top-level header with a negative count or a length below -1.
BadLine(c) ==
  /\ pstate[c].bulkLen = 0
  /\ FirstLF(inbuf[c]) > 0
  /\ LET l    == SubSeq(inbuf[c], 1, FirstLF(inbuf[c]))
         body == SubSeq(l, 2, Len(l) - 2)
     IN \/ Len(l) < 2
        \/ l[Len(l) - 1] # CR
        \/ /\ ~pstate[c].readingMultiLine
           /\ l[1] = "*"
           /\ ~IsDigits(body)
        \/ /\ ~pstate[c].readingMultiLine
           /\ l[1] = "$"
           /\ (~ParseInt(body).ok \/ ParseInt(body).val < -1)
        \/ /\ pstate[c].readingMultiLine
           /\ l[1] = "$"
           /\ ~ParseInt(body).ok

\* The bulk body connection c's parser is about to read does not end in CRLF.
BadBody(c) ==
  LET n == pstate[c].bulkLen + 2 IN
  /\ pstate[c].bulkLen > 0
  /\ Len(inbuf[c]) >= n
  /\ (inbuf[c][n - 1] # CR \/ inbuf[c][n] # LF)

\* C7: on every format failure of the input the parser sends exactly one
\* unit carrying a protocol error, resets its state to the zero value and
\* goes on: the channel stays open and the task alive.
C7_FormatFailureRecovered ==
  [][\A c \in Conns :
       (ppc[c] = "read" /\ (BadLine(c) \/ BadBody(c)) /\ ppc'[c] # "read") =>
         /\ ppc'[c] = "send"
         /\ pend'[c].data = NoReply
         /\ pend'[c].err.kind = "protocol"
         /\ pstate'[c] = ZeroState]_vars

\* The read connection c's parser is about to do meets the end of the input:
\* no whole line, or no whole bulk body, is left and the stream has ended.
StreamFails(c) ==
  /\ ppc[c] = "read"
  /\ endKind[c] # "open"
  /\ IF pstate[c].bulkLen = 0 THEN FirstLF(inbuf[c]) = 0
     ELSE Len(inbuf[c]) < pstate[c].bulkLen + 2

\* C8: on a transport failure, while reading a line or a bulk body, the
\* parser sends one final unit carrying that error; a unit carrying a
\* transport error is always the final one; once it is taken the channel is
\* closed, and nothing is sent after.
C8_TransportFailureEndsSequence ==
  [][\A c \in Conns :
       /\ StreamFails(c) =>
            /\ ppc'[c] = "sendFinal"
            /\ pend'[c].data = NoReply
            /\ pend'[c].err.kind \in (IF endKind[c] = "eof"
                                      THEN {"EOF", "ErrUnexpectedEOF"}
                                      ELSE {"reset"})
       /\ IsTransport(pend'[c].err) => ppc'[c] = "sendFinal"
       /\ ppc[c] = "sendFinal" =>
            /\ ppc'[c] = "closed"
            /\ emitted'[c] = Append(emitted[c], pend[c])
       /\ ppc[c] = "closed" =>
            /\ ppc'[c] = "closed"
            /\ emitted'[c] = emitted[c]]_vars

\* The input ended inside a bulk body, after a first unit: the channel is
\* closed and the last unit carries io.ErrUnexpectedEOF.
C8_Witness ==
  \E c \in Conns :
    /\ ppc[c] = "closed"
    /\ Len(emitted[c]) >= 2
    /\ emitted[c][Len(emitted[c])].err.kind = "ErrUnexpectedEOF"
    /\ pstate[c].bulkLen > 0

\* C9: every unit the parser sends holds exactly one of a value and an error.
C9_DataXorErr ==
  \A c \in Conns :
    \A i \in 1..Len(emitted[c]) :
      (emitted[c][i].data # NoReply) # (emitted[c][i].err # NoErr)

\* The wire encoding of a bulk string and of a Multi-Bulk.
EncodeBulk(a) == <<"$">> \o Itoa(Len(a)) \o <<CR, LF>> \o a \o <<CR, LF>>
RECURSIVE EncodeBulks(_)
EncodeBulks(args) ==
  IF args = <<>> THEN <<>> ELSE EncodeBulk(Head(args)) \o EncodeBulks(Tail(args))
EncodeMultiBulk(args) ==
  <<"*">> \o Itoa(Len(args)) \o <<CR, LF>> \o EncodeBulks(args)

\* The argument lists of the Multi-Bulk encodings among the inputs.
ArgValues == {<<"a">>, <<"$">>, <<LF>>, <<>>}
ArgLists == {<<a>> : a \in ArgValues} \cup {<<a, b>> : a \in ArgValues, b \in ArgValues}

\* The parser of connection c has nothing left to do with its input.
Settled(c) ==
  \/ ppc[c] \in {"closed", "panicked"}
  \/ ppc[c] = "read" /\ inbuf[c] = <<>>

\* The units of connection c, the final transport-error unit left out.
UnitsOf(c) == SelectSeq(emitted[c], LAMBDA p : ~IsTransport(p.err))

\* C10: when the input is the encoding of an argument list, the parser,
\* once through it, has sent exactly one Multi-Bulk unit with those
\* arguments in that order, and is back in its initial state.
C10_RoundTrip ==
  \A c \in Conns :
    \A args \in ArgLists :
      (sent[c] = EncodeMultiBulk(args) /\ Settled(c)) =>
        /\ ppc[c] # "panicked"
        /\ UnitsOf(c) = <<Payload(MakeMultiBulkReply(args), NoErr)>>
        /\ pstate[c] = ZeroState

\* The bulk body connection c's parser is about to read is all there and
\* ends in CRLF.
WholeBody(c) ==
  LET n == pstate[c].bulkLen + 2 IN
  /\ ppc[c] = "read"
  /\ pstate[c].bulkLen > 0
  /\ Len(inbuf[c]) >= n
  /\ inbuf[c][n - 1] = CR
  /\ inbuf[c][n] = LF

\* C11: a bulk body of declared length len is consumed as exactly len + 2
\* bytes and delivered as those len bytes, whatever they are: it becomes the
\* next argument of the message being read, which is sent when it is the
\* last one.
C11_BinarySafe ==
  [][\A c \in Conns :
       WholeBody(c) =>
         LET len  == pstate[c].bulkLen
             body == SubSeq(inbuf[c], 1, len)
             args == Append(pstate[c].args, body)
         IN /\ inbuf'[c] = SubSeq(inbuf[c], len + 3, Len(inbuf[c]))
            /\ IF Len(args) = pstate[c].expectedArgsCount
               THEN /\ ppc'[c] = "send"
                    /\ pend'[c] = Payload(IF pstate[c].msgType = "*"
                                          THEN MakeMultiBulkReply(args)
                                          ELSE MakeBulkReply(body), NoErr)
               ELSE /\ ppc'[c] = "read"
                    /\ pstate'[c] = [pstate[c] EXCEPT !.args = args, !.bulkLen = 0]]_vars

\* C12: a top-level "$-1" yields one Null-Bulk unit, a top-level "$-2" one
\* protocol error, and a top-level bulk of length 0 or 1 one Bulk unit
\* holding its bytes, with all of its encoding read.
C12_TopLevelBulk ==
  \A c \in Conns :
    Settled(c) =>
      /\ sent[c] = <<"$", "-", "1", CR, LF>> =>
           UnitsOf(c) = <<Payload(NullBulkReply, NoErr)>>
      /\ sent[c] = <<"$", "-", "2", CR, LF>> =>
           UnitsOf(c) = <<Payload(NoReply, ProtocolError(sent[c]))>>
      /\ \A b \in {<<>>, <<"a">>} :
           sent[c] = EncodeBulk(b) =>
             /\ UnitsOf(c) = <<Payload(MakeBulkReply(b), NoErr)>>
             /\ inbuf[c] = <<>>

\* The read connection c's parser is at does not return: parse0 as one
\* iteration (whole = FALSE) or up to its next send.
ReadBlocks(c, whole) ==
  ppc[c] = "read" /\ \A r \in Outcomes(c, whole) : r.outcome = "block"

\* Neither task of connection c can take a step: each has returned or is
\* blocked, on the socket or on the channel.
Quiet(c) ==
  /\ ppc[c] = "read" => ReadBlocks(c, TRUE)
  /\ ~ENABLED HandleStart(c)
  /\ ~ENABLED HandleStore(c)
  /\ ~ENABLED HandleRecv(c)
  /\ ~ENABLED HandleEnd(c)

\* C13: a connection whose socket is closed, by the client or by the server,
\* does not come to rest before both its tasks have ended: the handler has
\* returned and the parser has returned or died, neither is left blocked on
\* the channel.
C13_ClosedSocketUnwinds ==
  \A c \in Conns :
    (hpc[c] # "idle" /\ (sockClosed[c] \/ endKind[c] = "eof") /\ Quiet(c)) =>
      /\ hpc[c] = "done"
      /\ ppc[c] \in {"closed", "panicked"}

\* The parser of connection c, with a consumer that takes every unit, can
\* take no step.
ParserQuiet(c) ==
  /\ ppc[c] = "read" => ReadBlocks(c, FALSE)
  /\ ~ENABLED Consume(c)

\* C14: a parser whose input has ended or failed does not come to rest, with
\* a consumer taking every unit, before its channel is closed.
C14_SequenceEnds ==
  \A c \in Conns :
    (ppc[c] # "none" /\ endKind[c] # "open" /\ ParserQuiet(c)) => ppc[c] = "closed"

\* C15: the parser's state never holds more arguments than the count of the
\* message being read, nor as many: a step sends a Multi-Bulk or Bulk unit
\* only when the count is positive and the unit holds that many arguments,
\* and the state is then the zero state.
C15_ArgsWithinCount ==
  [][\A c \in Conns :
       LET s  == pstate[c]
           s2 == pstate'[c]
       IN /\ Len(s2.args) <= s2.expectedArgsCount
          /\ ~(s2.expectedArgsCount > 0 /\ Len(s2.args) = s2.expectedArgsCount)
          /\ (/\ ppc[c] = "read"
              /\ ppc'[c] = "send"
              /\ pend'[c].data.kind \in {"bulk", "multibulk"}) =>
               /\ s.expectedArgsCount > 0
               /\ Len(pend'[c].data.args) = s.expectedArgsCount
               /\ s2 = ZeroState]_vars

\* A Multi-Bulk of two arguments was sent when its second argument was read.
C15_Witness ==
  \E c \in Conns :
    /\ Len(emitted[c]) = 1
    /\ emitted[c][1].data.kind = "multibulk"
    /\ Len(emitted[c][1].data.args) = 2
    /\ pstate[c] = ZeroState

\* The next line of connection c's input, read in the initial state, is a
\* Multi-Bulk header whose count is no number or is negative.
BadCount(c) ==
  /\ ppc[c] = "read"
  /\ pstate[c] = ZeroState
  /\ FirstLF(inbuf[c]) >= 3
  /\ LET l == SubSeq(inbuf[c], 1, FirstLF(inbuf[c]))
     IN /\ l[1] = "*"
        /\ l[Len(l) - 1] = CR
        /\ ~IsDigits(SubSeq(l, 2, Len(l) - 2))

\* C16: a Multi-Bulk header whose count is no number or is negative yields
\* one protocol-error unit carrying the line, and leaves the parser in its
\* initial state at the first byte after the line.
C16_HeaderResync ==
  [][\A c \in Conns :
       BadCount(c) =>
         LET i == FirstLF(inbuf[c]) IN
         /\ ppc'[c] = "send"
         /\ pend'[c] = Payload(NoReply, ProtocolError(SubSeq(inbuf[c], 1, i)))
         /\ pstate'[c] = ZeroState
         /\ inbuf'[c] = SubSeq(inbuf[c], i + 1, Len(inbuf[c]))]_vars

\* After a header with a negative count, a command was decoded.
C16_Witness ==
  \E c \in Conns :
    /\ sent[c] = <<"*", "-", "1", CR, LF>> \o CmdA
    /\ emitted[c] = <<Payload(NoReply, ProtocolError(<<"*", "-", "1", CR, LF>>)),
                      Payload(MakeMultiBulkReply(<<(<<"a">>)>>), NoErr)>>
    /\ pstate[c] = ZeroState

\* C17: while a unit parse0 is sending has not been received, the parser
\* takes no byte of the input and changes no state: the unit stays the one
\* offered until the handler receives it, so at most one unit is in flight.
C17_BackPressure ==
  [][\A c \in Conns :
       ppc[c] \in {"send", "sendFinal"} =>
         /\ inbuf'[c] = inbuf[c]
         /\ pstate'[c] = pstate[c]
         /\ \/ /\ pend'[c] = pend[c]
               /\ ppc'[c] = ppc[c]
               /\ emitted'[c] = emitted[c]
            \/ emitted'[c] = Append(emitted[c], pend[c])]_vars

\* A second unit is offered, the first one received, while a further message
\* waits in the input.
C17_Witness ==
  \E c \in Conns :
    /\ ppc[c] = "send"
    /\ Len(emitted[c]) = 1
    /\ inbuf[c] # <<>>
    /\ hpc[c] = "recv"

\* C18: once a call of RespHandler.Close has returned, every connection in
\* activeConn has its socket closed.
C18_NoOpenConnAfterClose ==
  (\E k \in Closers : cpc[k] = "done") =>
    \A c \in activeConn : sockClosed[c]

\* No task of the server can take a step: the accept loop, the callers of
\* RespHandler.Close and both tasks of every connection have returned or
\* are blocked.
ServerQuiet ==
  /\ \A c \in Conns : Quiet(c)
  /\ \A k \in Closers :
       /\ ~ENABLED CloseSet(k)
       /\ ~ENABLED CloseDB(k)
       /\ \A c \in Conns : ~ENABLED CloseRange(k, c)
  /\ ~ENABLED AcceptError
  /\ ~ENABLED WaitReturns
  /\ ~ENABLED ServeReturns

\* C19: after the shutdown notification the server does not come to rest
\* before ListenAndServe has returned, whether or not the clients close
\* their end.
C19_ShutdownCompletes ==
  (cpc["sup"] # "idle" /\ ServerQuiet) => lspc = "returned"

\* C20: once db.Close() was called, no step of a handler calls db.Exec.
C20_NoExecAfterClose ==
  [][dbClosed =>
       \A c \in Conns :
         Len(handled'[c]) > Len(handled[c]) =>
           handled'[c][Len(handled'[c])].exec = <<>>]_vars

====
